---------------------------- MODULE Spec2Model ----------------------------
(***************************************************************************)
(* State-machine model of the trading core of MyFolio: the risk engine     *)
(* (DrawdownController, ExposureManager, PositionSizer), the six-layer     *)
(* entry decision of BaseStrategy, and the execution engines (LiveTrader,  *)
(* PaperTrader, Backtester).                                               *)
(*                                                                         *)
(* Python floats are modelled as exact rationals [n |-> num, d |-> den]    *)
(* in lowest terms with d > 0.  The three IEEE specials that pandas        *)
(* produces on a division by zero are the records with d = 0:              *)
(* NaN = 0/0, +inf = 1/0, -inf = -1/0.                                     *)
(***************************************************************************)
EXTENDS Integers, Sequences, FiniteSets, TLC

(***************************************************************************)
(* Bounds of the model                                                     *)
(***************************************************************************)
\* largest equity value fed to a DrawdownController under test
MaxEquity == 4
\* longest equity curve of a DrawdownController under test
MaxCurve == 4
\* number of orders the broker records before the model stops placing
MaxBrokerOrders == 2
\* number of monitor_positions polls of a LiveTrader
MaxMonitor == 2
\* longest equity curve given to a strategy's own DrawdownController
MaxStrategyCurve == 2
\* number of bars in the price history of a backtest
MaxBars == 3
\* number of execute_order calls that fill
MaxFills == 2
\* number of process_market_data calls
MaxTicks == 1

\* trade records of a backtester whose entries and exits are called directly
MaxCashTrades == 4
\* number of fills of a PaperTrader trading one symbol with market orders
MaxTradeFills == 4

(***************************************************************************)
(* Program constants (defaults read in the constructors), in hundredths    *)
(***************************************************************************)
\* DrawdownController.max_drawdown_pct = 0.15
max_drawdown_pct == 15
\* DrawdownController.reduce_risk_at_drawdown = 0.10
reduce_risk_at_drawdown == 10
\* DrawdownController.kill_switch_drawdown = 0.20
kill_switch_drawdown == 20
\* DrawdownController.reduce_risk_multiplier = 0.5
reduce_risk_multiplier == 50

\* ExposureManager.max_total_exposure_pct = 1.0
max_total_exposure_pct == 100
\* ExposureManager.max_sector_exposure_pct = 0.25
max_sector_exposure_pct == 25
\* ExposureManager.max_correlation_exposure_pct = 0.30
max_correlation_exposure_pct == 30
\* ExposureManager.max_single_position_pct = 0.10
max_single_position_pct == 10
\* PositionSizer.risk_per_trade = 0.01
sizer_risk_per_trade == 1
\* PositionSizer.max_position_size_pct = 0.10
max_position_size_pct == 10

\* Python None: a record no number and no dict equals
None == [none |-> TRUE]

VARIABLES
    dc,             \* a DrawdownController driven directly
    dc_prev,        \* that controller before its latest call (history)
    em,             \* an ExposureManager driven directly
    em_result,      \* the latest can_add_position call: arguments, manager, result
    live,           \* a LiveTrader
    broker_orders,  \* the orders the broker has received (broker side)
    live_result,    \* what the latest LiveTrader call returned
    strategy,       \* a BaseStrategy with its own risk components
    decision,       \* the latest should_enter call: its arguments and its result
    paper,          \* a PaperTrader
    paper_last,     \* its latest call and what the call returned (history)
    paper_marks,    \* symbol -> price of its latest tick while held (history)
    backtest,       \* a Backtester, with the position of run_backtest in its loop
    bt_result,      \* what run_backtest returned, None while it runs
    sizer_call,     \* a call of a PositionSizer method: its name and arguments
    sizer_result    \* what that call returned, None before it is made

dcVars == <<dc, dc_prev>>
emVars == <<em, em_result>>
liveVars == <<live, broker_orders, live_result>>
stratVars == <<strategy, decision>>
paperVars == <<paper, paper_last, paper_marks>>
btVars == <<backtest, bt_result>>
sizerVars == <<sizer_call, sizer_result>>

vars == <<dcVars, emVars, liveVars, stratVars, paperVars, btVars, sizerVars>>

(***************************************************************************)
(* Float arithmetic as exact rationals                                     *)
(***************************************************************************)
Abs(x) == IF x < 0 THEN -x ELSE x

RECURSIVE GCD(_, _)
GCD(a, b) == IF b = 0 THEN a ELSE GCD(b, a % b)

LCM(a, b) == (a \div GCD(a, b)) * b

\* the rational n/d (d > 0) in lowest terms
Rat(n, d) ==
    LET g == GCD(Abs(n), d)
    IN  [n |-> (IF n < 0 THEN -(Abs(n) \div g) ELSE n \div g), d |-> d \div g]

R(k) == [n |-> k, d |-> 1]

NaN == [n |-> 0, d |-> 0]
PosInf == [n |-> 1, d |-> 0]
NegInf == [n |-> -1, d |-> 0]

IsFinite(x) == x.d # 0
IsNaN(x) == x.d = 0 /\ x.n = 0

\* x + y, x - y on finite values (common denominator by LCM keeps numbers small)
RAdd(x, y) ==
    LET l == LCM(x.d, y.d)
    IN  Rat(x.n * (l \div x.d) + y.n * (l \div y.d), l)

RNeg(x) == [n |-> -x.n, d |-> x.d]

RSub(x, y) == RAdd(x, RNeg(y))

\* x * y on finite values, cross-cancelled before multiplying
RMul(x, y) ==
    LET a == Rat(x.n, y.d)
        b == Rat(y.n, x.d)
    IN  Rat(a.n * b.n, a.d * b.d)

\* a/b < c/d for b, d > 0, by integer parts and then the remainders' reciprocals
\* (no product is formed, so large denominators do not overflow)
RECURSIVE FracLess(_, _, _, _)
FracLess(a, b, c, d) ==
    LET q1 == a \div b
        q2 == c \div d
        r1 == a - q1 * b
        r2 == c - q2 * d
    IN  IF q1 # q2 THEN q1 < q2
        ELSE IF r2 = 0 THEN FALSE
        ELSE IF r1 = 0 THEN TRUE
        ELSE FracLess(d, r2, b, r1)

\* x < y with IEEE semantics: any comparison with NaN is false
RLess(x, y) ==
    IF IsNaN(x) \/ IsNaN(y) THEN FALSE
    ELSE IF ~IsFinite(x) THEN x.n < 0 /\ y # NegInf
    ELSE IF ~IsFinite(y) THEN y.n > 0
    ELSE FracLess(x.n, x.d, y.n, y.d)

RGreater(x, y) == RLess(y, x)

RLeq(x, y) == RLess(x, y) \/ (~IsNaN(x) /\ x = y)

RGeq(x, y) == RLeq(y, x)

\* x / y as pandas/numpy compute it: a zero divisor gives NaN or +-inf
RDiv(x, y) ==
    IF y.n = 0
    THEN IF x.n = 0 THEN NaN ELSE IF x.n > 0 THEN PosInf ELSE NegInf
    ELSE LET s == IF y.n < 0 THEN -1 ELSE 1
         IN  RMul(x, [n |-> s * y.d, d |-> Abs(y.n)])

RAbs(x) == [n |-> Abs(x.n), d |-> x.d]

\* k * x for an integer k > 0, specials kept
RScale(k, x) == IF IsFinite(x) THEN RMul(R(k), x) ELSE x

\* int(x): truncation toward zero
RInt(x) == IF x.n < 0 THEN -(Abs(x.n) \div x.d) ELSE x.n \div x.d

\* dict.get(key, default) on a record
Get(rec, key, default) == IF key \in DOMAIN rec THEN rec[key] ELSE default

Last(s) == s[Len(s)]

(***************************************************************************)
(* DrawdownController (core/risk_engine/drawdown_control.py)               *)
(***************************************************************************)
DrawdownController ==
    [equity_curve |-> << >>, peak_equity |-> None, kill_switch_active |-> FALSE]

\* mutant: a new peak clears the kill switch
update_equity_autoreset(self, equity) ==
    [self EXCEPT
        !.equity_curve = Append(self.equity_curve, equity),
        !.peak_equity = IF self.peak_equity = None \/ RGreater(equity, self.peak_equity)
                        THEN equity ELSE self.peak_equity,
        !.kill_switch_active = IF self.peak_equity = None \/ RGreater(equity, self.peak_equity)
                               THEN FALSE ELSE @]

update_equity(self, equity) ==
    [self EXCEPT
        !.equity_curve = Append(self.equity_curve, equity),
        !.peak_equity = IF self.peak_equity = None \/ RGreater(equity, self.peak_equity)
                        THEN equity ELSE self.peak_equity]

\* mutant: the peak is the first equity of the curve
ExpandingMax_first(curve, i) == curve[1]

\* pandas Series.expanding().max() at position i (1-based)
RECURSIVE ExpandingMax(_, _)
ExpandingMax(curve, i) ==
    IF i = 1 THEN curve[1]
    ELSE LET m == ExpandingMax(curve, i - 1)
         IN  IF RGreater(curve[i], m) THEN curve[i] ELSE m

\* pandas Series.min(): the least element, NaN skipped; NaN when all are NaN
RECURSIVE SeriesMin(_, _)
SeriesMin(s, i) ==
    IF i = 0 THEN NaN
    ELSE LET m == SeriesMin(s, i - 1)
         IN  IF IsNaN(s[i]) THEN m
             ELSE IF IsNaN(m) \/ RLess(s[i], m) THEN s[i] ELSE m

calculate_drawdown(equity_curve) ==
    IF Len(equity_curve) < 2
    THEN [current_drawdown |-> R(0), max_drawdown |-> R(0), drawdown_pct |-> R(0)]
    ELSE LET N == Len(equity_curve)
             peak == [i \in 1..N |-> ExpandingMax(equity_curve, i)]
             drawdown == [i \in 1..N |-> RSub(equity_curve[i], peak[i])]
             drawdown_pct == [i \in 1..N |-> RScale(100, RDiv(drawdown[i], peak[i]))]
         IN  [current_drawdown |-> RAbs(drawdown[N]),
              current_drawdown_pct |-> RAbs(drawdown_pct[N]),
              max_drawdown |-> RAbs(SeriesMin(drawdown, N)),
              max_drawdown_pct |-> RAbs(SeriesMin(drawdown_pct, N)),
              peak_equity |-> peak[N]]

check_max_drawdown(self) ==
    IF self.equity_curve = << >> THEN TRUE
    ELSE LET current_drawdown_pct ==
                 Get(calculate_drawdown(self.equity_curve), "current_drawdown_pct", R(0))
         IN  ~RGreater(current_drawdown_pct, Rat(max_drawdown_pct, 100))

should_reduce_risk(self) ==
    IF self.equity_curve = << >> THEN FALSE
    ELSE LET current_drawdown_pct ==
                 Get(calculate_drawdown(self.equity_curve), "current_drawdown_pct", R(0))
         IN  RGreater(current_drawdown_pct, Rat(reduce_risk_at_drawdown, 100))

get_risk_multiplier(self) ==
    IF should_reduce_risk(self) THEN Rat(reduce_risk_multiplier, 100) ELSE R(1)

\* the controller after activate_kill_switch()
activate_kill_switch(self) ==
    IF self.equity_curve = << >> THEN self
    ELSE LET current_drawdown_pct ==
                 Get(calculate_drawdown(self.equity_curve), "current_drawdown_pct", R(0))
         IN  IF RGreater(current_drawdown_pct, Rat(kill_switch_drawdown, 100))
             THEN [self EXCEPT !.kill_switch_active = TRUE]
             ELSE self

is_kill_switch_active(self) == self.kill_switch_active

reset_kill_switch(self) == [self EXCEPT !.kill_switch_active = FALSE]


(***************************************************************************)
(* ExposureManager (core/risk_engine/exposure_limits.py)                   *)
(***************************************************************************)
ExposureManager(initial_capital) ==
    [account_value |-> initial_capital, positions |-> << >>]

update_account_value(m, value) == [m EXCEPT !.account_value = value]

get_account_value(m) == m.account_value

\* positions is a dict: a function whose domain is the set of symbols held
DictSet(dict, key, value) ==
    [k \in (DOMAIN dict) \cup {key} |-> IF k = key THEN value ELSE dict[k]]

DictDel(dict, key) == [k \in (DOMAIN dict) \ {key} |-> dict[k]]

add_position(m, symbol, size, price) ==
    [m EXCEPT !.positions =
        DictSet(m.positions, symbol,
                [size |-> size, price |-> price, value |-> RMul(size, price)])]

remove_position(m, symbol) ==
    IF symbol \in DOMAIN m.positions
    THEN [m EXCEPT !.positions = DictDel(m.positions, symbol)]
    ELSE m

\* sum(pos['value'] for pos in positions.values())
RECURSIVE SumValues(_, _)
SumValues(dict, keys) ==
    IF keys = {} THEN R(0)
    ELSE LET k == CHOOSE x \in keys : TRUE
         IN  RAdd(dict[k].value, SumValues(dict, keys \ {k}))

calculate_total_exposure(m) ==
    LET total_exposure == SumValues(m.positions, DOMAIN m.positions)
    IN  [total_exposure |-> total_exposure,
         exposure_pct |-> IF RGreater(m.account_value, R(0))
                          THEN RDiv(total_exposure, m.account_value) ELSE R(0),
         max_exposure |-> RMul(m.account_value, Rat(max_total_exposure_pct, 100)),
         max_exposure_pct |-> Rat(max_total_exposure_pct, 100)]

check_max_position_size(m, symbol, size) ==
    RLeq(size, RMul(m.account_value, Rat(max_single_position_pct, 100)))

can_add_position(m, symbol, size) ==
    IF symbol \in DOMAIN m.positions THEN FALSE
    ELSE IF ~check_max_position_size(m, symbol, size) THEN FALSE
    ELSE LET exposure_info == calculate_total_exposure(m)
             new_total_exposure == RAdd(exposure_info.total_exposure, size)
         IN  ~RGreater(new_total_exposure, exposure_info.max_exposure)

(***************************************************************************)
(* LiveTrader (core/execution_engine/live_trader.py)                       *)
(***************************************************************************)
\* a symbol string is a base name and a suffix; "" is the empty string
LiveSymbols ==
    {[base |-> "", suffix |-> ""], [base |-> "TCS", suffix |-> ".NS"],
     [base |-> "", suffix |-> ".BO"]}

_symbol_to_groww(symbol) ==
    IF symbol.base = "" /\ symbol.suffix = "" THEN <<"NSE", "">>
    ELSE IF symbol.suffix = ".NS" THEN <<"NSE", symbol.base>>
    ELSE IF symbol.suffix = ".BO" THEN <<"BSE", symbol.base>>
    ELSE <<"NSE", symbol.base>>

\* LiveTrader.__init__ for broker_type "groww": the broker object exists and the
\* trader is connected exactly when the import worked and a token was set
LiveTrader(has_token) ==
    [broker |-> has_token, connected |-> has_token,
     drawdown_controller |-> DrawdownController,
     exposure_manager |-> ExposureManager(R(100000)),
     polls |-> 0]

Error(msg) == [error |-> msg]

Submitted(kind) == [status |-> "SUBMITTED", order_type |-> kind]

\* the guard every place_*_order starts with
NotConnected == ~live.connected

\* broker.place_order(...) either raises or records the order
BrokerPlace(order, raises) ==
    IF raises
    THEN /\ live_result' = Error("broker exception")
         /\ UNCHANGED broker_orders
    ELSE /\ live_result' = Submitted(order.order_type)
         /\ broker_orders' = Append(broker_orders, order)

place_market_order(symbol, quantity, side, raises) ==
    /\ Len(broker_orders) < MaxBrokerOrders
    /\ UNCHANGED <<live, dcVars, emVars, stratVars, paperVars, btVars, sizerVars>>
    /\ IF NotConnected
       THEN live_result' = Error("Not connected to broker") /\ UNCHANGED broker_orders
       ELSE IF is_kill_switch_active(live.drawdown_controller)
       THEN live_result' = Error("Kill switch active - trading disabled")
            /\ UNCHANGED broker_orders
       ELSE IF _symbol_to_groww(symbol)[2] = ""
       THEN live_result' = Error("Invalid symbol") /\ UNCHANGED broker_orders
       ELSE BrokerPlace([order_type |-> "MARKET",
                         exchange |-> _symbol_to_groww(symbol)[1],
                         trading_symbol |-> _symbol_to_groww(symbol)[2],
                         quantity |-> quantity,
                         transaction_type |-> IF side = "buy" THEN "BUY" ELSE "SELL",
                         price |-> 0], raises)

place_limit_order(symbol, quantity, price, side, raises) ==
    /\ Len(broker_orders) < MaxBrokerOrders
    /\ UNCHANGED <<live, dcVars, emVars, stratVars, paperVars, btVars, sizerVars>>
    /\ IF NotConnected
       THEN live_result' = Error("Not connected to broker") /\ UNCHANGED broker_orders
       ELSE IF _symbol_to_groww(symbol)[2] = ""
       THEN live_result' = Error("Invalid symbol") /\ UNCHANGED broker_orders
       ELSE BrokerPlace([order_type |-> "LIMIT",
                         exchange |-> _symbol_to_groww(symbol)[1],
                         trading_symbol |-> _symbol_to_groww(symbol)[2],
                         quantity |-> quantity,
                         transaction_type |-> IF side = "buy" THEN "BUY" ELSE "SELL",
                         price |-> price], raises)

place_stop_order(symbol, quantity, stop_price, raises) ==
    /\ Len(broker_orders) < MaxBrokerOrders
    /\ UNCHANGED <<live, dcVars, emVars, stratVars, paperVars, btVars, sizerVars>>
    /\ IF NotConnected
       THEN live_result' = Error("Not connected to broker") /\ UNCHANGED broker_orders
       ELSE IF _symbol_to_groww(symbol)[2] = ""
       THEN live_result' = Error("Invalid symbol") /\ UNCHANGED broker_orders
       ELSE BrokerPlace([order_type |-> "STOP_LOSS_MARKET",
                         exchange |-> _symbol_to_groww(symbol)[1],
                         trading_symbol |-> _symbol_to_groww(symbol)[2],
                         quantity |-> quantity,
                         transaction_type |-> "SELL",
                         price |-> stop_price], raises)

\* connect_to_broker(): the profile call either works or raises
connect_to_broker(raises) ==
    /\ live' = [live EXCEPT !.connected = IF live.broker /\ ~raises THEN TRUE ELSE @]
    /\ live_result' = [returned |-> live.broker /\ ~raises]
    /\ UNCHANGED <<broker_orders, dcVars, emVars, stratVars, paperVars, btVars, sizerVars>>

\* monitor_positions(): equity is what the broker reports, or the status call
\* failed (status_ok = FALSE); the positions call may fail as well
monitor_positions(equity, status_ok, positions_ok) ==
    /\ live.polls < MaxMonitor
    /\ LET has_equity == live.connected /\ live.broker /\ status_ok
           d1 == IF has_equity
                 THEN activate_kill_switch(update_equity(live.drawdown_controller, equity))
                 ELSE live.drawdown_controller
           m1 == IF live.connected /\ live.broker /\ positions_ok
                 THEN update_account_value(live.exposure_manager,
                                           IF has_equity THEN equity ELSE R(0))
                 ELSE live.exposure_manager
       IN  live' = [live EXCEPT !.drawdown_controller = d1,
                                !.exposure_manager = m1,
                                !.polls = @ + 1]
    /\ UNCHANGED <<broker_orders, live_result, dcVars, emVars, stratVars, paperVars, btVars, sizerVars>>

\* the operator's manual override: drawdown_controller.reset_kill_switch()
live_reset_kill_switch ==
    /\ live.drawdown_controller.kill_switch_active
    /\ live' = [live EXCEPT !.drawdown_controller = reset_kill_switch(@)]
    /\ UNCHANGED <<broker_orders, live_result, dcVars, emVars, stratVars, paperVars, btVars, sizerVars>>

(***************************************************************************)
(* PositionSizer (core/risk_engine/position_sizing.py)                     *)
(***************************************************************************)
\* calculate_position_size without the cap of max_position_size_pct
calculate_position_size_uncapped(account_value, risk_per_trade, stop_loss_pct) ==
    LET rpt == IF risk_per_trade = None THEN Rat(sizer_risk_per_trade, 100)
               ELSE risk_per_trade
        risk_amount == RMul(account_value, rpt)
        raw_size == RDiv(risk_amount, stop_loss_pct)
        max_position_size == RMul(account_value, Rat(max_position_size_pct, 100))
    IN  IF stop_loss_pct.n = 0 THEN [raised |-> "ZeroDivisionError"]
        ELSE [position_size |-> raw_size,
              risk_amount |-> risk_amount,
              risk_per_trade |-> rpt,
              stop_loss_pct |-> stop_loss_pct,
              max_position_size |-> max_position_size]
\* risk_per_trade is a rational, or None for the configured default; a zero
\* stop_loss_pct makes Python's float division raise ZeroDivisionError
calculate_position_size(account_value, risk_per_trade, stop_loss_pct) ==
    LET rpt == IF risk_per_trade = None THEN Rat(sizer_risk_per_trade, 100)
               ELSE risk_per_trade
        risk_amount == RMul(account_value, rpt)
        raw_size == RDiv(risk_amount, stop_loss_pct)
        max_position_size == RMul(account_value, Rat(max_position_size_pct, 100))
    IN  IF stop_loss_pct.n = 0 THEN [raised |-> "ZeroDivisionError"]
        ELSE [position_size |-> IF RLess(max_position_size, raw_size)
                                THEN max_position_size ELSE raw_size,
              risk_amount |-> risk_amount,
              risk_per_trade |-> rpt,
              stop_loss_pct |-> stop_loss_pct,
              max_position_size |-> max_position_size]

\* max(1, int(position_size / price)), and 0 for a price <= 0
calculate_shares(price, position_size) ==
    IF RLeq(price, R(0)) THEN 0
    ELSE LET shares == RInt(RDiv(position_size, price))
         IN  IF shares < 1 THEN 1 ELSE shares

\* avg_loss is finite or -inf, win_rate and avg_win are finite; Python's float
\* division raises ZeroDivisionError on a zero divisor, min(1, x) is x when
\* x < 1 and max(0, x) is x when x > 0
apply_kelly_criterion(win_rate, avg_win, avg_loss) ==
    IF avg_loss = R(0) THEN R(0)
    ELSE LET win_loss_ratio == RDiv(avg_win, RAbs(avg_loss))
         IN  IF win_loss_ratio = R(0) THEN [raised |-> "ZeroDivisionError"]
             ELSE LET kelly_pct == RDiv(RSub(RMul(win_rate, win_loss_ratio),
                                             RSub(R(1), win_rate)),
                                        win_loss_ratio)
                      capped == IF RLess(kelly_pct, R(1)) THEN kelly_pct ELSE R(1)
                      clamped == IF RGreater(capped, R(0)) THEN capped ELSE R(0)
                  IN  RMul(clamped, Rat(1, 2))

(***************************************************************************)
(* BaseStrategy (core/strategy_engine/base_strategy.py)                    *)
(***************************************************************************)
\* None where the value is otherwise a string
NoneStr == "None"

Layers == <<"regime", "fundamentals", "sentiment", "intermarket", "technical", "risk">>

\* BaseStrategy.__init__: the strategy builds risk components of its own
BaseStrategy(require_all_layers) ==
    [require_all_layers |-> require_all_layers,
     drawdown_controller |-> DrawdownController,
     exposure_manager |-> ExposureManager(R(100000))]

\* regime_label is what regime_detector.get_regime_label() returns
check_regime(required_regime, regime_label) ==
    IF required_regime = NoneStr THEN TRUE ELSE regime_label = required_regime

check_risk_rules(self, symbol, size) ==
    IF ~check_max_drawdown(self.drawdown_controller) THEN FALSE
    ELSE IF ~can_add_position(self.exposure_manager, symbol, size) THEN FALSE
    ELSE TRUE

\* sum(checks.values()) over the first i layers
RECURSIVE PassedCount(_, _)
PassedCount(checks, i) ==
    IF i = 0 THEN 0
    ELSE PassedCount(checks, i - 1) + (IF checks[Layers[i]] THEN 1 ELSE 0)

\* mutant: the quorum is 3 layers
Quorum_three(checks) == PassedCount(checks, Len(Layers)) >= 3

\* "At least 4 out of 6 layers must pass"
Quorum(checks) == PassedCount(checks, Len(Layers)) >= 4

\* all(checks.values())
AllPassed(checks) == \A i \in 1..Len(Layers) : checks[Layers[i]]

\* only the first failing layer is reported
AppendIf_first_only(seq, cond, x) == IF cond /\ seq = << >> THEN Append(seq, x) ELSE seq
AppendIf(seq, cond, x) == IF cond THEN Append(seq, x) ELSE seq

\* the decision of should_enter from the six checks it has computed (the
\* first reason is followed in the code by the name of the required regime)
Decision(self, checks, technical_signal, position_size_dollars) ==
    LET r1 == AppendIf(<< >>, ~checks.regime, "Regime check failed")
        r2 == AppendIf(r1, ~checks.fundamentals, "Fundamental check failed")
        r3 == AppendIf(r2, ~checks.sentiment, "Sentiment check failed")
        r4 == AppendIf(r3, ~checks.intermarket, "Intermarket check failed")
        r5 == AppendIf(r4, ~checks.technical, "Technical entry check failed")
        reasons == AppendIf(r5, ~checks.risk, "Risk rules check failed")
        all_passed == IF self.require_all_layers THEN AllPassed(checks)
                      ELSE Quorum(checks)
    IN  [enter |-> all_passed,
         checks |-> checks,
         reasons |-> reasons,
         technical_signal |-> technical_signal,
         position_size |-> IF all_passed THEN position_size_dollars ELSE R(0)]

\* layers holds what the collaborators answer during this call: regime_label,
\* fundamentals, sentiment, intermarket (booleans) and technical_signal (a dict)
should_enter(self, symbol, required_regime, layers) ==
    LET regime == IF required_regime # NoneStr
                  THEN check_regime(required_regime, layers.regime_label)
                  ELSE TRUE
        technical == Get(layers.technical_signal, "signal", FALSE)
        account_value == get_account_value(self.exposure_manager)
        position_size_result ==
            calculate_position_size(account_value, Rat(1, 100), Rat(5, 100))
        position_size_dollars == Get(position_size_result, "position_size", R(0))
        risk == check_risk_rules(self, symbol, position_size_dollars)
    IN  Decision(self,
                 [regime |-> regime,
                  fundamentals |-> layers.fundamentals,
                  sentiment |-> layers.sentiment,
                  intermarket |-> layers.intermarket,
                  technical |-> technical,
                  risk |-> risk],
                 layers.technical_signal, position_size_dollars)

(***************************************************************************)
(* PaperTrader (core/execution_engine/paper_trader.py)                     *)
(* Timestamps (datetime.now()) are left out of positions and log entries.  *)
(***************************************************************************)
PaperTrader(initial_capital) ==
    [initial_capital |-> initial_capital,
     cash |-> initial_capital,
     positions |-> << >>,
     orders |-> << >>,
     trades |-> << >>,
     drawdown_controller |-> DrawdownController,
     exposure_manager |-> ExposureManager(initial_capital)]

Rejected(reason) == [status |-> "REJECTED", reason |-> reason]

Raised(exception) == [raised |-> exception]

\* mutant: the cash is debited before it is checked
_execute_buy_debit_first(self, symbol, quantity, price) ==
    LET cost == RMul(R(quantity), price)
        s1 == [self EXCEPT !.cash = RSub(@, cost)]
    IN  IF RLess(s1.cash, R(0))
        THEN [self |-> s1, result |-> Rejected("Insufficient cash")]
        ELSE [self |-> [s1 EXCEPT
                          !.positions = DictSet(@, symbol,
                              [shares |-> quantity, entry_price |-> price]),
                          !.orders = Append(@, [symbol |-> symbol, side |-> "BUY",
                                                quantity |-> quantity, price |-> price,
                                                cost |-> cost, status |-> "FILLED"])],
              result |-> [status |-> "FILLED", execution_price |-> price]]

\* returns the trader after the call and what the call returned (or raised)
\* a buy into an existing position takes the latest price as its entry price
_execute_buy_last_price(self, symbol, quantity, price) ==
    LET cost == RMul(R(quantity), price)
        s1 == [self EXCEPT !.cash = RSub(@, cost)]
        held == symbol \in DOMAIN self.positions
        pos == self.positions[symbol]
        total_shares == pos.shares + quantity
        new_pos == IF held
                   THEN [shares |-> total_shares, entry_price |-> price]
                   ELSE [shares |-> quantity, entry_price |-> price]
    IN  IF RGreater(cost, self.cash)
        THEN [self |-> self, result |-> Rejected("Insufficient cash")]
        ELSE IF held /\ total_shares = 0
        THEN [self |-> s1, result |-> Raised("ZeroDivisionError")]
        ELSE [self |-> [s1 EXCEPT
                          !.positions = DictSet(@, symbol, new_pos),
                          !.orders = Append(@, [symbol |-> symbol, side |-> "BUY",
                                                quantity |-> quantity, price |-> price,
                                                cost |-> cost, status |-> "FILLED"])],
              result |-> [status |-> "FILLED", execution_price |-> price]]
_execute_buy(self, symbol, quantity, price) ==
    LET cost == RMul(R(quantity), price)
        s1 == [self EXCEPT !.cash = RSub(@, cost)]
        held == symbol \in DOMAIN self.positions
        pos == self.positions[symbol]
        total_shares == pos.shares + quantity
        avg_price == RDiv(RAdd(RMul(R(pos.shares), pos.entry_price), cost),
                          R(total_shares))
        new_pos == IF held
                   THEN [shares |-> total_shares, entry_price |-> avg_price]
                   ELSE [shares |-> quantity, entry_price |-> price]
    IN  IF RGreater(cost, self.cash)
        THEN [self |-> self, result |-> Rejected("Insufficient cash")]
        ELSE IF held /\ total_shares = 0
        THEN [self |-> s1, result |-> Raised("ZeroDivisionError")]
        ELSE [self |-> [s1 EXCEPT
                          !.positions = DictSet(@, symbol, new_pos),
                          !.orders = Append(@, [symbol |-> symbol, side |-> "BUY",
                                                quantity |-> quantity, price |-> price,
                                                cost |-> cost, status |-> "FILLED"])],
              result |-> [status |-> "FILLED", execution_price |-> price]]

\* mutant: the pnl of a sell is taken against the sell price itself
_execute_sell_zero_pnl(self, symbol, quantity, price) ==
    IF symbol \notin DOMAIN self.positions
    THEN [self |-> self, result |-> Rejected("No position")]
    ELSE IF quantity > self.positions[symbol].shares
    THEN [self |-> self, result |-> Rejected("Insufficient shares")]
    ELSE LET position == self.positions[symbol]
             remaining_shares == position.shares - quantity
         IN  [self |-> [self EXCEPT
                          !.cash = RAdd(@, RMul(R(quantity), price)),
                          !.positions =
                              IF remaining_shares = 0 THEN DictDel(@, symbol)
                              ELSE DictSet(@, symbol,
                                           [position EXCEPT !.shares = remaining_shares]),
                          !.orders = Append(@, [symbol |-> symbol, side |-> "SELL",
                                                quantity |-> quantity, price |-> price,
                                                proceeds |-> RMul(R(quantity), price),
                                                pnl |-> R(0), status |-> "FILLED"]),
                          !.trades = Append(@, [symbol |-> symbol,
                                                entry_price |-> position.entry_price,
                                                exit_price |-> price,
                                                quantity |-> quantity, pnl |-> R(0)])],
              result |-> [status |-> "FILLED", execution_price |-> price, pnl |-> R(0)]]

_execute_sell(self, symbol, quantity, price) ==
    IF symbol \notin DOMAIN self.positions
    THEN [self |-> self, result |-> Rejected("No position")]
    ELSE IF quantity > self.positions[symbol].shares
    THEN [self |-> self, result |-> Rejected("Insufficient shares")]
    ELSE LET position == self.positions[symbol]
             proceeds == RMul(R(quantity), price)
             remaining_shares == position.shares - quantity
             pnl == RMul(RSub(price, position.entry_price), R(quantity))
         IN  [self |-> [self EXCEPT
                          !.cash = RAdd(@, proceeds),
                          !.positions =
                              IF remaining_shares = 0 THEN DictDel(@, symbol)
                              ELSE DictSet(@, symbol,
                                           [position EXCEPT !.shares = remaining_shares]),
                          !.orders = Append(@, [symbol |-> symbol, side |-> "SELL",
                                                quantity |-> quantity, price |-> price,
                                                proceeds |-> proceeds, pnl |-> pnl,
                                                status |-> "FILLED"]),
                          !.trades = Append(@, [symbol |-> symbol,
                                                entry_price |-> position.entry_price,
                                                exit_price |-> price,
                                                quantity |-> quantity, pnl |-> pnl])],
              result |-> [status |-> "FILLED", execution_price |-> price, pnl |-> pnl]]

\* mutant: a limit order that is met fills at the quoted price
LimitGate_at_quote(side, current_price, limit_price) ==
    IF side = "BUY" /\ RLeq(current_price, limit_price) THEN current_price
    ELSE IF side = "SELL" /\ RGeq(current_price, limit_price) THEN current_price
    ELSE None

\* the LIMIT branch of execute_order: the execution price, or None when the
\* limit is not met
LimitGate(side, current_price, limit_price) ==
    IF side = "BUY" /\ RLeq(current_price, limit_price) THEN limit_price
    ELSE IF side = "SELL" /\ RGeq(current_price, limit_price) THEN limit_price
    ELSE None

\* order is a dict with symbol, side, quantity, type and perhaps limit_price;
\* current_price is quote.get('price', 0) of the quote fetched for the symbol
execute_order(self, order, current_price) ==
    LET symbol == order.symbol
        side == Get(order, "side", "BUY")
        quantity == Get(order, "quantity", 0)
        order_type == Get(order, "type", "MARKET")
        limit_price == Get(order, "limit_price", current_price)
        execution_price == IF order_type = "MARKET" THEN current_price
                           ELSE LimitGate(side, current_price, limit_price)
    IN  IF order_type # "MARKET" /\ order_type # "LIMIT"
        THEN [self |-> self, result |-> Rejected("Unsupported order type")]
        ELSE IF execution_price = None
        THEN [self |-> self, result |-> Rejected("Limit price not met")]
        ELSE IF side = "BUY"
        THEN _execute_buy(self, symbol, quantity, execution_price)
        ELSE _execute_sell(self, symbol, quantity, execution_price)

\* price is quote.get("price") of the quote fetched for the symbol; nothing of
\* the trader is changed
get_execution_preview(self, order, price) ==
    LET side == Get(order, "side", "BUY")
        quantity == Get(order, "quantity", 0)
        order_type == Get(order, "type", "MARKET")
        limit_price == Get(order, "limit_price", price)
        shown == IF order_type = "LIMIT" /\ side = "BUY" /\ RGreater(price, limit_price)
                 THEN limit_price
                 ELSE IF order_type = "LIMIT" /\ side = "SELL"
                         /\ RLess(price, limit_price)
                 THEN limit_price
                 ELSE price
    IN  IF quantity <= 0
        THEN [error |-> "Invalid quantity", would_execute_at |-> None]
        ELSE IF price = R(0)
        THEN [error |-> "Could not get current price", would_execute_at |-> None]
        ELSE [would_execute_at |-> shown,
              quantity |-> quantity,
              side |-> side,
              estimated_value |-> RMul(R(quantity), shown),
              error |-> NoneStr]
\* returns the trader after the call and whether the call raised: a position
\* bought at price 0 makes the percentage a division by zero, after the two
\* assignments before it
_update_position_pnl(self, symbol, current_price) ==
    IF symbol \notin DOMAIN self.positions THEN [self |-> self, raised |-> FALSE]
    ELSE LET position == self.positions[symbol]
             p1 == [k \in (DOMAIN position) \cup {"current_price", "unrealized_pnl"} |->
                       IF k = "current_price" THEN current_price
                       ELSE IF k = "unrealized_pnl"
                       THEN RMul(RSub(current_price, position.entry_price),
                                 R(position.shares))
                       ELSE position[k]]
             p2 == [k \in (DOMAIN p1) \cup {"unrealized_pnl_pct"} |->
                       IF k = "unrealized_pnl_pct"
                       THEN RScale(100, RDiv(RSub(current_price, position.entry_price),
                                             position.entry_price))
                       ELSE p1[k]]
         IN  IF position.entry_price.n = 0
             THEN [self |-> [self EXCEPT !.positions = DictSet(@, symbol, p1)],
                   raised |-> TRUE]
             ELSE [self |-> [self EXCEPT !.positions = DictSet(@, symbol, p2)],
                   raised |-> FALSE]

RECURSIVE SumMarked(_, _)
SumMarked(positions, keys) ==
    IF keys = {} THEN R(0)
    ELSE LET k == CHOOSE x \in keys : TRUE
             current_price == Get(positions[k], "current_price", positions[k].entry_price)
         IN  RAdd(RMul(R(positions[k].shares), current_price),
                  SumMarked(positions, keys \ {k}))

_calculate_equity(self) == RAdd(self.cash, SumMarked(self.positions, DOMAIN self.positions))

\* current_price is data.get('price', 0)
process_market_data(self, symbol, current_price) ==
    LET u == _update_position_pnl(self, symbol, current_price)
        equity == _calculate_equity(u.self)
    IN  IF u.raised THEN [self |-> u.self, result |-> Raised("ZeroDivisionError")]
        ELSE [self |-> [u.self EXCEPT
                          !.exposure_manager = update_account_value(@, equity),
                          !.drawdown_controller = update_equity(@, equity)],
              result |-> [equity |-> equity]]

(***************************************************************************)
(* Backtester (core/execution_engine/backtester.py)                        *)
(* A date is the index of its bar in the filtered price history.           *)
(***************************************************************************)
\* Backtester.__init__; commission is per share, slippage_bps in basis points;
\* pc is where run_backtest stands ("new" before it, "loop", "returned") and
\* last_close is df['close'].iloc[-1] of the bars processed so far
Backtester(initial_capital, commission, slippage_bps) ==
    [initial_capital |-> initial_capital,
     commission |-> commission,
     slippage_bps |-> RDiv(slippage_bps, R(10000)),
     cash |-> initial_capital,
     positions |-> << >>,
     trades |-> << >>,
     equity_curve |-> <<initial_capital>>,
     dates |-> << >>,
     drawdown_controller |-> DrawdownController,
     exposure_manager |-> ExposureManager(initial_capital),
     last_close |-> None,
     pc |-> "new"]

\* self.dates[-1] if self.dates else datetime.now()
TradeDate(self) == IF self.dates # << >> THEN Last(self.dates) ELSE 0

\* the position dict _execute_entry stores
BtEntryPosition(shares, price, execution_price, date) ==
    [shares |-> shares, entry_price |-> execution_price, entry_date |-> date]

\* _execute_entry without the "Not enough cash" return
_execute_entry_unfunded(self, symbol, price, position_size) ==
    LET execution_price == RMul(price, RAdd(R(1), self.slippage_bps))
        shares == calculate_shares(execution_price, position_size)
        cost == RMul(R(shares), execution_price)
        commission_cost == RMul(R(shares), self.commission)
        total_cost == RAdd(cost, commission_cost)
    IN  [self EXCEPT
            !.cash = RSub(@, total_cost),
            !.positions = DictSet(@, symbol,
                BtEntryPosition(shares, price, execution_price, TradeDate(self))),
            !.trades = Append(@, [symbol |-> symbol, type |-> "ENTRY",
                                  shares |-> shares, price |-> execution_price,
                                  cost |-> total_cost, date |-> TradeDate(self)])]
_execute_entry(self, symbol, price, position_size) ==
    LET execution_price == RMul(price, RAdd(R(1), self.slippage_bps))
        shares == calculate_shares(execution_price, position_size)
        cost == RMul(R(shares), execution_price)
        commission_cost == RMul(R(shares), self.commission)
        total_cost == RAdd(cost, commission_cost)
    IN  IF RGreater(total_cost, self.cash) THEN self
        ELSE [self EXCEPT
                !.cash = RSub(@, total_cost),
                !.positions = DictSet(@, symbol,
                    BtEntryPosition(shares, price, execution_price, TradeDate(self))),
                !.trades = Append(@, [symbol |-> symbol, type |-> "ENTRY",
                                      shares |-> shares, price |-> execution_price,
                                      cost |-> total_cost, date |-> TradeDate(self)])]

\* pnl / (shares * entry_price) * 100 raises ZeroDivisionError on a zero basis;
\* calculate_shares gives at least one share at a positive price and the closes
\* of the model are positive, so the basis is positive
_execute_exit(self, symbol, price, reason) ==
    IF symbol \notin DOMAIN self.positions THEN self
    ELSE LET position == self.positions[symbol]
             shares == position.shares
             entry_price == position.entry_price
             execution_price == RMul(price, RSub(R(1), self.slippage_bps))
             proceeds == RMul(R(shares), execution_price)
             commission_cost == RMul(R(shares), self.commission)
             net_proceeds == RSub(proceeds, commission_cost)
             pnl == RSub(net_proceeds, RMul(R(shares), entry_price))
             pnl_pct == RScale(100, RDiv(pnl, RMul(R(shares), entry_price)))
         IN  [self EXCEPT
                !.cash = RAdd(@, net_proceeds),
                !.trades = Append(@, [symbol |-> symbol, type |-> "EXIT",
                                      shares |-> shares, price |-> execution_price,
                                      proceeds |-> net_proceeds, pnl |-> pnl,
                                      pnl_pct |-> pnl_pct, reason |-> reason,
                                      date |-> TradeDate(self)]),
                !.positions = DictDel(@, symbol)]

RECURSIVE SumShares(_, _)
SumShares(positions, keys) ==
    IF keys = {} THEN 0
    ELSE LET k == CHOOSE x \in keys : TRUE
         IN  positions[k].shares + SumShares(positions, keys \ {k})

\* Backtester._calculate_equity: every position is valued at current_price
bt_calculate_equity(self, current_price) ==
    RAdd(self.cash, RMul(R(SumShares(self.positions, DOMAIN self.positions)),
                         current_price))

\* the state reset at the start of run_backtest; the risk components are kept
bt_reset(self) ==
    [self EXCEPT !.cash = self.initial_capital,
                 !.positions = << >>,
                 !.trades = << >>,
                 !.equity_curve = <<self.initial_capital>>,
                 !.dates = << >>,
                 !.last_close = None,
                 !.pc = "loop"]

\* one iteration of "for date, row in df.iterrows()": close is row['close'],
\* exit_signal what strategy.should_exit answers, layers what the layers of
\* strategy.should_enter answer on this bar
bt_bar(self, strat, symbol, close, exit_signal, layers) ==
    LET date == Len(self.dates) + 1
        equity == bt_calculate_equity(self, close)
        s1 == [self EXCEPT
                 !.last_close = close,
                 !.dates = Append(@, date),
                 !.equity_curve = Append(@, equity),
                 !.drawdown_controller = update_equity(@, equity),
                 !.exposure_manager = update_account_value(@, equity)]
        s2 == IF symbol \in DOMAIN s1.positions /\ Get(exit_signal, "exit", FALSE)
              THEN _execute_exit(s1, symbol, close, Get(exit_signal, "reason", ""))
              ELSE s1
        entry_decision == should_enter(strat, symbol, NoneStr, layers)
        position_size == Get(entry_decision, "position_size", R(0))
    IN  IF symbol \notin DOMAIN s2.positions
           /\ Get(entry_decision, "enter", FALSE)
           /\ RGreater(position_size, R(0))
        THEN _execute_entry(s2, symbol, close, position_size)
        ELSE s2

\* run_backtest without the closing step after the loop
bt_close_remaining_keep(self, symbol, final_price) == self
\* "Close any remaining positions" at the last bar's close
bt_close_remaining(self, symbol, final_price) ==
    IF symbol \in DOMAIN self.positions
    THEN _execute_exit(self, symbol, final_price, "End of backtest")
    ELSE self

\* number of trade log entries with pnl > 0
RECURSIVE CountWinning(_, _)
CountWinning(trades, i) ==
    IF i = 0 THEN 0
    ELSE CountWinning(trades, i - 1)
         + (IF RGreater(Get(trades[i], "pnl", R(0)), R(0)) THEN 1 ELSE 0)

\* _calculate_metrics, without cagr and sharpe_ratio (roots are not rational)
_calculate_metrics(self) ==
    IF Len(self.equity_curve) < 2 THEN << >>
    ELSE LET first == self.equity_curve[1]
             last == Last(self.equity_curve)
         IN  [total_return |-> RDiv(RSub(last, first), first),
              max_drawdown |-> RAbs(SeriesMin(
                  [i \in 1..Len(self.equity_curve) |->
                      RDiv(RSub(self.equity_curve[i], ExpandingMax(self.equity_curve, i)),
                           ExpandingMax(self.equity_curve, i))],
                  Len(self.equity_curve))),
              win_rate |-> IF self.trades # << >>
                           THEN Rat(CountWinning(self.trades, Len(self.trades)),
                                    Len(self.trades))
                           ELSE R(0),
              num_trades |-> Len(self.trades)]

\* the dict run_backtest returns
bt_results(self) ==
    [initial_capital |-> self.initial_capital,
     final_equity |-> Last(self.equity_curve),
     total_return |-> RSub(Last(self.equity_curve), self.initial_capital),
     total_return_pct |-> RScale(100, RDiv(RSub(Last(self.equity_curve),
                                                self.initial_capital),
                                           self.initial_capital)),
     trades |-> self.trades,
     num_trades |-> Len(self.trades),
     metrics |-> _calculate_metrics(self),
     equity_curve |-> self.equity_curve,
     dates |-> self.dates]

(***************************************************************************)
(* Initial states of the components                                        *)
(***************************************************************************)
DcIdle == dc = DrawdownController /\ dc_prev = DrawdownController

EmIdle == em = ExposureManager(R(100000)) /\ em_result = None

LiveIdle == live = LiveTrader(FALSE) /\ broker_orders = << >> /\ live_result = None

StratIdle == strategy = BaseStrategy(TRUE) /\ decision = None

PaperIdle ==
    paper = None /\ paper_last = None /\ paper_marks = << >>

BtIdle == backtest = None /\ bt_result = None

SizerIdle == sizer_call = None /\ sizer_result = None

(***************************************************************************)
(* A DrawdownController driven by its public methods                       *)
(***************************************************************************)
Equities == {R(e) : e \in 0..MaxEquity}

DcUpdateEquity ==
    /\ Len(dc.equity_curve) < MaxCurve
    /\ \E equity \in Equities : dc' = update_equity(dc, equity)
    /\ dc_prev' = dc
    /\ UNCHANGED <<emVars, liveVars, stratVars, paperVars, btVars, sizerVars>>

DcActivateKillSwitch ==
    /\ dc' = activate_kill_switch(dc)
    /\ dc_prev' = dc
    /\ UNCHANGED <<emVars, liveVars, stratVars, paperVars, btVars, sizerVars>>

DcResetKillSwitch ==
    /\ dc' = reset_kill_switch(dc)
    /\ dc_prev' = dc
    /\ UNCHANGED <<emVars, liveVars, stratVars, paperVars, btVars, sizerVars>>

InitDrawdown == DcIdle /\ EmIdle /\ LiveIdle /\ StratIdle /\ PaperIdle /\ BtIdle /\ SizerIdle

NextDrawdown == DcUpdateEquity \/ DcActivateKillSwitch \/ DcResetKillSwitch

SpecDrawdown == InitDrawdown /\ [][NextDrawdown]_vars

(***************************************************************************)
(* A LiveTrader with its broker                                            *)
(***************************************************************************)
LivePlaceMarket ==
    \E symbol \in LiveSymbols, side \in {"buy", "sell"}, raises \in BOOLEAN :
        place_market_order(symbol, 1, side, raises)

LivePlaceLimit ==
    \E symbol \in LiveSymbols, side \in {"buy", "sell"}, raises \in BOOLEAN :
        place_limit_order(symbol, 1, 1, side, raises)

LivePlaceStop ==
    \E symbol \in LiveSymbols, raises \in BOOLEAN :
        place_stop_order(symbol, 1, 1, raises)

LiveConnect == \E raises \in BOOLEAN : connect_to_broker(raises)

\* equities the broker reports: a peak, a 50% decline from it, and none
LiveEquities == {R(100), R(50), R(0)}

LiveMonitor ==
    \E equity \in LiveEquities, status_ok \in BOOLEAN, positions_ok \in BOOLEAN :
        monitor_positions(equity, status_ok, positions_ok)

LiveReset == live_reset_kill_switch

InitLive ==
    /\ DcIdle /\ EmIdle /\ StratIdle /\ PaperIdle /\ BtIdle /\ SizerIdle
    /\ \E has_token \in BOOLEAN : live = LiveTrader(has_token)
    /\ broker_orders = << >>
    /\ live_result = None

NextLive ==
    \/ LivePlaceMarket \/ LivePlaceLimit \/ LivePlaceStop
    \/ LiveConnect \/ LiveMonitor \/ LiveReset

SpecLive == InitLive /\ [][NextLive]_vars

(***************************************************************************)
(* An ExposureManager driven by its public methods                         *)
(***************************************************************************)
Symbols == {"AAPL", "MSFT"}

AccountValues == {R(0), R(10), R(20)}

DollarSizes == {R(1), R(2), R(15)}

SharePrices == {R(1), R(2)}

EmUpdateAccountValue ==
    /\ \E value \in AccountValues : em' = update_account_value(em, value)
    /\ UNCHANGED <<em_result, dcVars, liveVars, stratVars, paperVars, btVars, sizerVars>>

EmAddPosition ==
    /\ \E symbol \in Symbols, size \in DollarSizes, price \in SharePrices :
           em' = add_position(em, symbol, size, price)
    /\ UNCHANGED <<em_result, dcVars, liveVars, stratVars, paperVars, btVars, sizerVars>>

EmRemovePosition ==
    /\ \E symbol \in Symbols : em' = remove_position(em, symbol)
    /\ UNCHANGED <<em_result, dcVars, liveVars, stratVars, paperVars, btVars, sizerVars>>

EmCanAddPosition ==
    /\ \E symbol \in Symbols, size \in DollarSizes :
           em_result' = [symbol |-> symbol, size |-> size, manager |-> em,
                         returned |-> can_add_position(em, symbol, size)]
    /\ UNCHANGED <<em, dcVars, liveVars, stratVars, paperVars, btVars, sizerVars>>

InitExposure ==
    /\ \E value \in AccountValues : em = ExposureManager(value)
    /\ em_result = None
    /\ DcIdle /\ LiveIdle /\ StratIdle /\ PaperIdle /\ BtIdle /\ SizerIdle

NextExposure ==
    EmUpdateAccountValue \/ EmAddPosition \/ EmRemovePosition \/ EmCanAddPosition

SpecExposure == InitExposure /\ [][NextExposure]_vars

(***************************************************************************)
(* A BaseStrategy asked for entry decisions                                *)
(***************************************************************************)
StrategySymbols == {"AAPL"}

Regimes == {"RISK_ON", "RISK_OFF"}

TechnicalSignals ==
    {[signal |-> TRUE, direction |-> "LONG"], [signal |-> FALSE],
     [reason |-> "Insufficient data"]}

LayerAnswers ==
    [regime_label : Regimes, fundamentals : BOOLEAN, sentiment : BOOLEAN,
     intermarket : BOOLEAN, technical_signal : TechnicalSignals]

StrategyShouldEnter ==
    /\ \E symbol \in StrategySymbols, required_regime \in {NoneStr, "RISK_ON"},
          layers \in LayerAnswers :
           decision' = [symbol |-> symbol, required_regime |-> required_regime,
                        result |-> should_enter(strategy, symbol, required_regime, layers)]
    /\ UNCHANGED <<strategy, dcVars, emVars, liveVars, paperVars, btVars, sizerVars>>

\* a caller records a position in the strategy's exposure ledger
StrategyAddPosition ==
    /\ \E symbol \in StrategySymbols :
           strategy' = [strategy EXCEPT !.exposure_manager =
                            add_position(@, symbol, R(1), R(1))]
    /\ UNCHANGED <<decision, dcVars, emVars, liveVars, paperVars, btVars, sizerVars>>

StrategyRemovePosition ==
    /\ \E symbol \in StrategySymbols :
           strategy' = [strategy EXCEPT !.exposure_manager = remove_position(@, symbol)]
    /\ UNCHANGED <<decision, dcVars, emVars, liveVars, paperVars, btVars, sizerVars>>

\* a caller feeds the strategy's drawdown controller
StrategyUpdateEquity ==
    /\ Len(strategy.drawdown_controller.equity_curve) < MaxStrategyCurve
    /\ \E equity \in {R(100), R(50)} :
           strategy' = [strategy EXCEPT !.drawdown_controller = update_equity(@, equity)]
    /\ UNCHANGED <<decision, dcVars, emVars, liveVars, paperVars, btVars, sizerVars>>

InitStrategy ==
    /\ \E require_all_layers \in BOOLEAN : strategy = BaseStrategy(require_all_layers)
    /\ decision = None
    /\ DcIdle /\ EmIdle /\ LiveIdle /\ PaperIdle /\ BtIdle /\ SizerIdle

NextStrategy ==
    \/ StrategyShouldEnter \/ StrategyAddPosition \/ StrategyRemovePosition
    \/ StrategyUpdateEquity

SpecStrategy == InitStrategy /\ [][NextStrategy]_vars

(***************************************************************************)
(* A PaperTrader driven by orders and ticks                                *)
(***************************************************************************)
\* initial capitals, order quantities and prices offered to the trader
PaperCapitals == {R(4)}

Quantities == {0, 1, 2}

\* quotes: 0 stands for a quote without a price
QuotePrices == {R(0), R(1), R(2)}

LimitPrices == {R(1), R(2)}

MarketOrders ==
    [symbol : Symbols, side : {"BUY", "SELL"}, quantity : Quantities, type : {"MARKET"}]

LimitOrders ==
    [symbol : Symbols, side : {"BUY", "SELL"}, quantity : Quantities \ {0},
     type : {"LIMIT"}, limit_price : LimitPrices]

\* an order type the trader does not support, and orders without a quantity
OtherOrders ==
    {[symbol |-> "AAPL", side |-> "BUY", quantity |-> 1, type |-> "STOP"]}
    \cup [symbol : {"AAPL"}, side : {"BUY", "SELL"}, type : {"MARKET"}]

Orders == MarketOrders \cup LimitOrders \cup OtherOrders

\* what the history remembers of an execute_order call
OrderSummary(order, current_price) ==
    [type |-> Get(order, "type", "MARKET"),
     side |-> Get(order, "side", "BUY"),
     current_price |-> current_price,
     limit_price |-> Get(order, "limit_price", None)]

PaperExecuteOrder ==
    /\ paper # None
    /\ Len(paper.orders) < MaxFills
    /\ \E order \in Orders, current_price \in QuotePrices :
         LET r == execute_order(paper, order, current_price)
         IN  /\ paper' = r.self
             /\ paper_last' = [op |-> "execute_order",
                               order |-> OrderSummary(order, current_price),
                               result |-> r.result]
             /\ paper_marks' = [k \in (DOMAIN paper_marks) \cap (DOMAIN r.self.positions)
                                  |-> paper_marks[k]]
    /\ UNCHANGED <<dcVars, emVars, liveVars, stratVars, btVars, sizerVars>>

PaperProcessMarketData ==
    /\ paper # None
    /\ Len(paper.drawdown_controller.equity_curve) < MaxTicks
    /\ \E symbol \in Symbols, current_price \in QuotePrices :
         LET r == process_market_data(paper, symbol, current_price)
         IN  /\ paper' = r.self
             /\ paper_last' = [op |-> "process_market_data", result |-> r.result]
             /\ paper_marks' = IF symbol \in DOMAIN paper.positions
                               THEN DictSet(paper_marks, symbol, current_price)
                               ELSE paper_marks
    /\ UNCHANGED <<dcVars, emVars, liveVars, stratVars, btVars, sizerVars>>

InitPaper ==
    /\ \E initial_capital \in PaperCapitals : paper = PaperTrader(initial_capital)
    /\ paper_last = None
    /\ paper_marks = << >>
    /\ DcIdle /\ EmIdle /\ LiveIdle /\ StratIdle /\ BtIdle /\ SizerIdle

NextPaper == PaperExecuteOrder \/ PaperProcessMarketData

SpecPaper == InitPaper /\ [][NextPaper]_vars

(***************************************************************************)
(* A Backtester running a strategy over a price history of one symbol      *)
(***************************************************************************)
BtSymbol == "AAPL"

\* closes of the bars
Closes == {R(100), R(110)}

\* (commission per share, slippage in basis points): the defaults, and none
BtCosts == {<<Rat(5, 1000), R(5)>>, <<R(0), R(0)>>}

ExitSignals == {[exit |-> TRUE, reason |-> "Stop loss"], [exit |-> FALSE]}

\* answers of the layers on a bar: all pass, or the technical layer has no signal
BtLayerAnswers ==
    [regime_label : {"RISK_ON"}, fundamentals : BOOLEAN, sentiment : {TRUE},
     intermarket : {TRUE}, technical_signal : {[signal |-> TRUE], [signal |-> FALSE]}]

\* run_backtest starts: the history is fetched, the account is reset
BtStart ==
    /\ backtest # None
    /\ backtest.pc = "new"
    /\ backtest' = bt_reset(backtest)
    /\ UNCHANGED <<bt_result, dcVars, emVars, liveVars, stratVars, paperVars, sizerVars>>

\* the loop processes the next bar of the history
BtBar ==
    /\ backtest # None
    /\ backtest.pc = "loop"
    /\ Len(backtest.dates) < MaxBars
    /\ \E close \in Closes, exit_signal \in ExitSignals, layers \in BtLayerAnswers :
           backtest' = bt_bar(backtest, strategy, BtSymbol, close, exit_signal, layers)
    /\ UNCHANGED <<bt_result, dcVars, emVars, liveVars, stratVars, paperVars, sizerVars>>

\* the history is exhausted: remaining positions are closed at the last close
\* (df['close'].iloc[-1]) and the results are returned
BtFinish ==
    /\ backtest # None
    /\ backtest.pc = "loop"
    /\ LET closed == bt_close_remaining(backtest, BtSymbol, backtest.last_close)
       IN  /\ backtest' = [closed EXCEPT !.pc = "returned"]
           /\ bt_result' = bt_results(closed)
    /\ UNCHANGED <<dcVars, emVars, liveVars, stratVars, paperVars, sizerVars>>

InitBacktest ==
    /\ \E costs \in BtCosts : backtest = Backtester(R(100000), costs[1], costs[2])
    /\ bt_result = None
    /\ \E require_all_layers \in BOOLEAN : strategy = BaseStrategy(require_all_layers)
    /\ decision = None
    /\ DcIdle /\ EmIdle /\ LiveIdle /\ PaperIdle /\ SizerIdle

NextBacktest == BtStart \/ BtBar \/ BtFinish

SpecBacktest == InitBacktest /\ [][NextBacktest]_vars

(***************************************************************************)
(* Either simulation engine: a PaperTrader session or a backtest           *)
(***************************************************************************)
InitEngines == InitPaper \/ InitBacktest

NextEngines == NextPaper \/ NextBacktest

SpecEngines == InitEngines /\ [][NextEngines]_vars

(***************************************************************************)
(* A DrawdownController fed equities around its thresholds                 *)
(***************************************************************************)
\* a peak of 100 and declines of 10, 16, 20 and 21 per cent of it
ThresholdEquities == {R(100), R(90), R(84), R(80), R(79)}

DcUpdateEquityNearThreshold ==
    /\ Len(dc.equity_curve) < MaxCurve
    /\ \E equity \in ThresholdEquities : dc' = update_equity(dc, equity)
    /\ dc_prev' = dc
    /\ UNCHANGED <<emVars, liveVars, stratVars, paperVars, btVars, sizerVars>>

NextThreshold ==
    DcUpdateEquityNearThreshold \/ DcActivateKillSwitch \/ DcResetKillSwitch

SpecThreshold == InitDrawdown /\ [][NextThreshold]_vars

(***************************************************************************)
(* A PositionSizer whose methods are called with arguments of the caller's *)
(***************************************************************************)
SizerAccountValues == {R(0), R(1000), R(100000), R(250000)}

\* None: the configured risk_per_trade is used
RisksPerTrade == {None, Rat(1, 100), Rat(2, 100), Rat(1, 2)}

StopLossPcts == {Rat(-5, 100), R(0), Rat(1, 100), Rat(5, 100), Rat(1, 5), R(1)}

WinRates == {R(0), Rat(1, 4), Rat(1, 2), Rat(3, 4), R(1)}

AvgWins == {R(1), R(2), R(50)}

AvgLosses == {R(0), R(-1), R(-2), R(-100), NegInf}

SizerCalls ==
    [op : {"calculate_position_size"}, account_value : SizerAccountValues,
     risk_per_trade : RisksPerTrade, stop_loss_pct : StopLossPcts]
    \cup
    [op : {"apply_kelly_criterion"}, win_rate : WinRates, avg_win : AvgWins,
     avg_loss : AvgLosses]

SizerCalculatePositionSize ==
    /\ sizer_call # None
    /\ sizer_call.op = "calculate_position_size"
    /\ sizer_result = None
    /\ sizer_result' = calculate_position_size(sizer_call.account_value,
                           sizer_call.risk_per_trade, sizer_call.stop_loss_pct)
    /\ UNCHANGED <<sizer_call, dcVars, emVars, liveVars, stratVars, paperVars, btVars>>

SizerApplyKelly ==
    /\ sizer_call # None
    /\ sizer_call.op = "apply_kelly_criterion"
    /\ sizer_result = None
    /\ sizer_result' = apply_kelly_criterion(sizer_call.win_rate,
                           sizer_call.avg_win, sizer_call.avg_loss)
    /\ UNCHANGED <<sizer_call, dcVars, emVars, liveVars, stratVars, paperVars, btVars>>

InitSizer ==
    /\ sizer_call \in SizerCalls
    /\ sizer_result = None
    /\ DcIdle /\ EmIdle /\ LiveIdle /\ StratIdle /\ PaperIdle /\ BtIdle

NextSizer == SizerCalculatePositionSize \/ SizerApplyKelly

SpecSizer == InitSizer /\ [][NextSizer]_vars

(***************************************************************************)
(* An account of either engine driven by entries, exits and orders: the    *)
(* PaperTrader as above, or a Backtester whose _execute_entry and          *)
(* _execute_exit are called one after the other                            *)
(***************************************************************************)
\* initial capitals of the backtester: nothing, the cost of one share bought at
\* 100 with the default slippage and commission (100.055), and more
CashCapitals == {R(0), Rat(20011, 200), R(1000)}

\* prices of entries (positive) and of exits (a worthless exit among them)
CashEntryPrices == {R(100)}

CashExitPrices == {R(0), R(100)}

\* dollar sizes of one and of two shares
CashSizes == {R(100), R(300)}

CashEntry ==
    /\ backtest # None
    /\ Len(backtest.trades) < MaxCashTrades
    /\ \E price \in CashEntryPrices, position_size \in CashSizes :
           backtest' = _execute_entry(backtest, BtSymbol, price, position_size)
    /\ UNCHANGED <<bt_result, dcVars, emVars, liveVars, stratVars, paperVars, sizerVars>>

CashExit ==
    /\ backtest # None
    /\ Len(backtest.trades) < MaxCashTrades
    /\ \E price \in CashExitPrices :
           backtest' = _execute_exit(backtest, BtSymbol, price, "Signal")
    /\ UNCHANGED <<bt_result, dcVars, emVars, liveVars, stratVars, paperVars, sizerVars>>

InitCashBacktest ==
    /\ \E costs \in BtCosts, initial_capital \in CashCapitals :
           backtest = bt_reset(Backtester(initial_capital, costs[1], costs[2]))
    /\ bt_result = None
    /\ DcIdle /\ EmIdle /\ LiveIdle /\ StratIdle /\ PaperIdle /\ SizerIdle

InitCash == InitPaper \/ InitCashBacktest

NextCash == NextPaper \/ CashEntry \/ CashExit

SpecCash == InitCash /\ [][NextCash]_vars

(***************************************************************************)
(* A PaperTrader trading one symbol with market orders, over sequences     *)
(* long enough for incremental buys followed by partial sells              *)
(***************************************************************************)
TradeQuantities == {1, 2}

TradeQuotes == {R(1), R(2)}

TradeOrders ==
    [symbol : {"AAPL"}, side : {"BUY", "SELL"}, quantity : TradeQuantities,
     type : {"MARKET"}]

PaperTradeOrder ==
    /\ paper # None
    /\ Len(paper.orders) < MaxTradeFills
    /\ \E order \in TradeOrders, current_price \in TradeQuotes :
         LET r == execute_order(paper, order, current_price)
         IN  /\ paper' = r.self
             /\ paper_last' = [op |-> "execute_order",
                               order |-> OrderSummary(order, current_price),
                               result |-> r.result]
             /\ paper_marks' = [k \in (DOMAIN paper_marks) \cap (DOMAIN r.self.positions)
                                  |-> paper_marks[k]]
    /\ UNCHANGED <<dcVars, emVars, liveVars, stratVars, btVars, sizerVars>>

NextPaperTrades == PaperTradeOrder

SpecPaperTrades == InitPaper /\ [][NextPaperTrades]_vars

(***************************************************************************)
(* Claims                                                                  *)
(***************************************************************************)

\* price of the latest fill of symbol in the orders log, None without one
RECURSIVE LastFillPrice(_, _, _)
LastFillPrice(orders, symbol, i) ==
    IF i = 0 THEN None
    ELSE IF orders[i].symbol = symbol THEN orders[i].price
    ELSE LastFillPrice(orders, symbol, i - 1)

\* the prices an open paper position may count as marked at: its latest tick
\* while held (its entry price before the first tick), or its latest fill
MarkPrices(symbol) ==
    (IF symbol \in DOMAIN paper_marks
     THEN {paper_marks[symbol]}
     ELSE {paper.positions[symbol].entry_price})
    \cup ({LastFillPrice(paper.orders, symbol, Len(paper.orders))} \ {None})

RECURSIVE SumAtMarks(_, _, _)
SumAtMarks(positions, marks, keys) ==
    IF keys = {} THEN R(0)
    ELSE LET k == CHOOSE x \in keys : TRUE
         IN  RAdd(RMul(R(positions[k].shares), marks[k]),
                  SumAtMarks(positions, marks, keys \ {k}))

\* C1: after every fill and every tick the equity the PaperTrader computes is
\* cash plus, over the open positions, shares times the mark price of the
\* position's symbol (whichever of its admissible marks is taken).
C1_EquityIsCashPlusMarkedPositions ==
    paper # None =>
        LET held == DOMAIN paper.positions
        IN  \E marks \in [held -> UNION {MarkPrices(s) : s \in held}] :
                /\ \A s \in held : marks[s] \in MarkPrices(s)
                /\ _calculate_equity(paper)
                       = RAdd(paper.cash, SumAtMarks(paper.positions, marks, held))

\* C2: once kill_switch_active is true it stays true across every later
\* update_equity and activate_kill_switch call, whatever the equity; only
\* reset_kill_switch clears it.
C2_KillSwitchSticky ==
    [][(dc.kill_switch_active /\ ~DcResetKillSwitch) => dc'.kill_switch_active]_vars

\* C2 witness: the switch is still active after an update that took equity
\* back to or above the peak it had fallen from.
C2_Witness ==
    /\ dc.kill_switch_active
    /\ dc_prev.kill_switch_active
    /\ Len(dc.equity_curve) = Len(dc_prev.equity_curve) + 1
    /\ Len(dc.equity_curve) >= 3
    /\ RGeq(Last(dc.equity_curve), dc_prev.peak_equity)

\* C3: while the kill switch is active no place_*_order call reaches the
\* broker: the broker's order list does not grow.
C3_NoOrderWhileKilled ==
    [][is_kill_switch_active(live.drawdown_controller)
         => broker_orders' = broker_orders]_vars

\* number of checks that are true, counted as a set
TrueLayers(checks) == {k \in DOMAIN checks : checks[k]}

\* C4: enter is true exactly when all six checks pass (require_all_layers), or
\* at least 4 of the six pass (quorum mode).
C4_EnterRule ==
    decision # None =>
        LET checks == decision.result.checks
        IN  /\ DOMAIN checks = {Layers[i] : i \in 1..Len(Layers)}
            /\ Cardinality(DOMAIN checks) = 6
            /\ decision.result.enter =
                   IF strategy.require_all_layers
                   THEN Cardinality(TrueLayers(checks)) = 6
                   ELSE Cardinality(TrueLayers(checks)) >= 4

\* C4 witness: a quorum-mode decision that enters with exactly four passing
\* checks, the risk check among the failing ones.
C4_Witness ==
    /\ decision # None
    /\ ~strategy.require_all_layers
    /\ Cardinality(TrueLayers(decision.result.checks)) = 4
    /\ ~decision.result.checks.risk
    /\ decision.result.enter

\* a limit is met when the quote is at or below it (BUY), at or above it (SELL)
LimitMet(side, current_price, limit_price) ==
    IF side = "BUY" THEN RLeq(current_price, limit_price)
    ELSE RGeq(current_price, limit_price)

Status(result) == Get(result, "status", "")

\* C5 as stated: a LIMIT order fills exactly when its limit is met, at the limit
\* price, and is otherwise rejected with 'Limit price not met'.
C5_LimitFillsIffMet ==
    (paper_last # None /\ paper_last.op = "execute_order"
        /\ paper_last.order.type = "LIMIT") =>
        LET o == paper_last.order
            r == paper_last.result
        IN  /\ (Status(r) = "FILLED") = LimitMet(o.side, o.current_price, o.limit_price)
            /\ Status(r) = "FILLED" => r.execution_price = o.limit_price
            /\ Status(r) # "FILLED" => r = Rejected("Limit price not met")

\* the account can carry the order at price: cash for a BUY, shares for a SELL
Funded(self, order, price) ==
    IF order.side = "BUY"
    THEN ~RGreater(RMul(R(order.quantity), price), self.cash)
    ELSE /\ order.symbol \in DOMAIN self.positions
         /\ order.quantity <= self.positions[order.symbol].shares

\* C5 amended: from every account state a LIMIT order fills exactly when its
\* limit is met and the account can carry it at the limit price; the fill is
\* at the limit price; an unmet limit is rejected with 'Limit price not met',
\* a met one the account cannot carry with the reason of the buy or the sell;
\* a rejected order leaves nothing behind.
C5_LimitFillsIffMetAndFunded ==
    paper # None =>
        \A order \in LimitOrders, current_price \in QuotePrices :
            LET r == execute_order(paper, order, current_price)
                met == LimitMet(order.side, current_price, order.limit_price)
                funded == Funded(paper, order, order.limit_price)
            IN  /\ (Status(r.result) = "FILLED") = (met /\ funded)
                /\ (met /\ funded) =>
                       /\ r.result.execution_price = order.limit_price
                       /\ Last(r.self.orders).price = order.limit_price
                /\ ~met => r.result = Rejected("Limit price not met")
                /\ (met /\ ~funded) =>
                       r.result \in {Rejected("Insufficient cash"), Rejected("No position"),
                                     Rejected("Insufficient shares")}
                /\ ~(met /\ funded) => r.self = paper

\* C5 witness: a LIMIT BUY quoted below its limit was filled at the limit.
C5_Witness ==
    /\ paper_last # None
    /\ paper_last.op = "execute_order"
    /\ paper_last.order.type = "LIMIT"
    /\ paper_last.order.side = "BUY"
    /\ RLess(paper_last.order.current_price, paper_last.order.limit_price)
    /\ Status(paper_last.result) = "FILLED"
    /\ paper_last.result.execution_price = paper_last.order.limit_price
    /\ Last(paper.orders).price = paper_last.order.limit_price

\* a MARKET BUY of quantity at price followed at once by the SELL of the same
\* quantity at the same price, from the current account of the paper trader
PaperRoundTrip(symbol, quantity, price) ==
    LET buy == execute_order(paper, [symbol |-> symbol, side |-> "BUY",
                                     quantity |-> quantity, type |-> "MARKET"], price)
        sell == execute_order(buy.self, [symbol |-> symbol, side |-> "SELL",
                                         quantity |-> quantity, type |-> "MARKET"], price)
    IN  [buy |-> buy, sell |-> sell]

\* _execute_entry followed at once by _execute_exit at the same price, from the
\* current account of the backtester
BtRoundTrip(price, position_size) ==
    LET entry == _execute_entry(backtest, BtSymbol, price, position_size)
    IN  [entry |-> entry, exit |-> _execute_exit(entry, BtSymbol, price, "Round trip")]

ZeroCosts == backtest.commission = R(0) /\ backtest.slippage_bps = R(0)

\* dollar sizes of an entry: the strategy's 10000, and less than one share
EntrySizes == {R(10000), R(50)}

\* C6 as stated: from any account state, without slippage and commission, an
\* entry followed at once by the exit of the same quantity at the same price
\* records pnl = 0 and restores cash, in the PaperTrader and in the Backtester.
C6_RoundTripIsNeutral ==
    /\ paper # None =>
           \A symbol \in Symbols, quantity \in Quantities \ {0}, price \in QuotePrices :
               LET t == PaperRoundTrip(symbol, quantity, price)
               IN  Status(t.buy.result) = "FILLED" =>
                       /\ Status(t.sell.result) = "FILLED"
                       /\ t.sell.result.pnl = R(0)
                       /\ t.sell.self.cash = paper.cash
    /\ (backtest # None /\ ZeroCosts) =>
           \A price \in Closes, position_size \in EntrySizes :
               LET t == BtRoundTrip(price, position_size)
               IN  Len(t.entry.trades) = Len(backtest.trades) + 1 =>
                       /\ Last(t.exit.trades).type = "EXIT"
                       /\ Last(t.exit.trades).pnl = R(0)
                       /\ t.exit.cash = backtest.cash

\* C6 amended: the round trip always restores cash; the Backtester records
\* pnl = 0; the PaperTrader records pnl = 0 exactly when the BUY did not add
\* to shares held at another entry price (its pnl is taken against the
\* volume-weighted entry price of the whole position).
C6_RoundTripRestoresCash ==
    /\ paper # None =>
           \A symbol \in Symbols, quantity \in Quantities \ {0}, price \in QuotePrices :
               LET t == PaperRoundTrip(symbol, quantity, price)
                   added == /\ symbol \in DOMAIN paper.positions
                            /\ paper.positions[symbol].shares # 0
                            /\ paper.positions[symbol].entry_price # price
               IN  Status(t.buy.result) = "FILLED" =>
                       /\ Status(t.sell.result) = "FILLED"
                       /\ (t.sell.result.pnl = R(0)) = ~added
                       /\ Last(t.sell.self.trades).pnl = t.sell.result.pnl
                       /\ t.sell.self.cash = paper.cash
    /\ (backtest # None /\ ZeroCosts) =>
           \A price \in Closes, position_size \in EntrySizes :
               LET t == BtRoundTrip(price, position_size)
               IN  Len(t.entry.trades) = Len(backtest.trades) + 1 =>
                       /\ Last(t.exit.trades).type = "EXIT"
                       /\ Last(t.exit.trades).pnl = R(0)
                       /\ t.exit.cash = backtest.cash

\* C6 witness: a paper account whose whole history is a BUY and the SELL of the
\* same quantity at the same price: pnl 0, cash back at the initial capital.
C6_Witness ==
    /\ paper # None
    /\ Len(paper.orders) = 2
    /\ paper.orders[1].side = "BUY"
    /\ paper.orders[2].side = "SELL"
    /\ paper.orders[1].symbol = paper.orders[2].symbol
    /\ paper.orders[1].quantity = paper.orders[2].quantity
    /\ paper.orders[1].quantity >= 1
    /\ paper.orders[1].price = paper.orders[2].price
    /\ paper.orders[2].pnl = R(0)
    /\ paper.cash = paper.initial_capital

\* the reason execute_order has to reject order at the quote current_price from
\* the account self, None when it has none
RejectionCause(self, order, current_price) ==
    LET side == Get(order, "side", "BUY")
        quantity == Get(order, "quantity", 0)
        order_type == Get(order, "type", "MARKET")
        limit_price == Get(order, "limit_price", current_price)
        price == IF order_type = "LIMIT" THEN limit_price ELSE current_price
    IN  IF order_type \notin {"MARKET", "LIMIT"} THEN "Unsupported order type"
        ELSE IF order_type = "LIMIT" /\ ~LimitMet(side, current_price, limit_price)
        THEN "Limit price not met"
        ELSE IF side = "BUY"
        THEN (IF RGreater(RMul(R(quantity), price), self.cash)
              THEN "Insufficient cash" ELSE NoneStr)
        ELSE IF order.symbol \notin DOMAIN self.positions THEN "No position"
        ELSE IF quantity > self.positions[order.symbol].shares
        THEN "Insufficient shares"
        ELSE NoneStr

\* C7: from every account state, an order that has to be rejected (insufficient
\* cash, no position, insufficient shares, limit not met, unsupported type) is
\* returned with status REJECTED and its reason, not raised, and every call
\* that returns REJECTED leaves cash, positions, orders and trades as they were.
C7_RejectionChangesNothing ==
    paper # None =>
        \A order \in Orders, current_price \in QuotePrices :
            LET r == execute_order(paper, order, current_price)
                cause == RejectionCause(paper, order, current_price)
            IN  /\ cause # NoneStr => r.result = Rejected(cause)
                /\ Status(r.result) = "REJECTED" =>
                       /\ r.result.reason = cause
                       /\ cause # NoneStr
                       /\ r.self.cash = paper.cash
                       /\ r.self.positions = paper.positions
                       /\ r.self.orders = paper.orders
                       /\ r.self.trades = paper.trades

\* C7 witness: an account with a fill in its log and an open position had an
\* order rejected for insufficient cash.
C7_Witness ==
    /\ paper_last # None
    /\ paper_last.op = "execute_order"
    /\ paper_last.result = Rejected("Insufficient cash")
    /\ paper.orders # << >>
    /\ paper.positions # << >>
    /\ RLess(paper.cash, paper.initial_capital)

\* C8: an order quoted at 0 (a quote of 0 or without a price) is returned
\* REJECTED, MARKET or LIMIT, BUY or SELL, and no fill at price 0 is logged.
C8_ZeroQuoteIsRejected ==
    /\ (paper_last # None /\ paper_last.op = "execute_order"
           /\ paper_last.order.type \in {"MARKET", "LIMIT"}
           /\ paper_last.order.current_price = R(0)) =>
           Status(paper_last.result) = "REJECTED"
    /\ paper # None =>
           \A i \in 1..Len(paper.orders) : paper.orders[i].price # R(0)

\* sum of the dollar sizes recorded in the ledger
RECURSIVE SumSizes(_, _)
SumSizes(dict, keys) ==
    IF keys = {} THEN R(0)
    ELSE LET k == CHOOSE x \in keys : TRUE
         IN  RAdd(dict[k].size, SumSizes(dict, keys \ {k}))

\* C9: can_add_position(symbol, d) is true exactly when symbol is not in the
\* ledger, d <= account_value * max_single_position_pct, and the dollar sizes
\* in the ledger plus d stay within account_value * max_total_exposure_pct.
C9_CanAddPosition ==
    em_result # None =>
        LET m == em_result.manager
        IN  em_result.returned =
                (/\ em_result.symbol \notin DOMAIN m.positions
                 /\ RLeq(em_result.size,
                         RMul(m.account_value, Rat(max_single_position_pct, 100)))
                 /\ RLeq(RAdd(SumSizes(m.positions, DOMAIN m.positions), em_result.size),
                         RMul(m.account_value, Rat(max_total_exposure_pct, 100))))

\* the current drawdown calculate_drawdown reports, as an amount and as a percentage
CurrentDrawdown(curve) == calculate_drawdown(curve).current_drawdown

CurrentDrawdownPct(curve) == Get(calculate_drawdown(curve), "current_drawdown_pct", R(0))

\* C10: the current drawdown is 0 right after an update that set a new running
\* peak (the first update included), and does not decrease on an update whose
\* equity is at most the previous equity.
C10_DrawdownZeroAtPeakThenMonotone ==
    LET curve == dc.equity_curve
        N == Len(curve)
        before == SubSeq(curve, 1, N - 1)
    IN  N >= 1 =>
            /\ (\A j \in 1..(N - 1) : RLess(curve[j], curve[N])) =>
                   /\ CurrentDrawdown(curve) = R(0)
                   /\ CurrentDrawdownPct(curve) = R(0)
            /\ (N >= 2 /\ RLeq(curve[N], curve[N - 1])) =>
                   /\ ~RLess(CurrentDrawdown(curve), CurrentDrawdown(before))
                   /\ ~RLess(CurrentDrawdownPct(curve), CurrentDrawdownPct(before))

\* C10 witness: a curve that rose to a new peak and then fell twice, the
\* drawdown growing on the second fall.
C10_Witness ==
    LET curve == dc.equity_curve
    IN  /\ Len(curve) = 4
        /\ RLess(curve[1], curve[2])
        /\ RLess(curve[3], curve[2])
        /\ RLess(curve[4], curve[3])
        /\ RGreater(CurrentDrawdownPct(curve), CurrentDrawdownPct(SubSeq(curve, 1, 3)))

\* the latest equity's decline from the running peak, as a fraction of the peak
DeclineFraction(curve) ==
    LET peak == ExpandingMax(curve, Len(curve))
    IN  RDiv(RSub(peak, Last(curve)), peak)

\* C11: check_max_drawdown is false exactly when the decline of the latest
\* equity from the running peak, as a fraction of the peak, exceeds
\* max_drawdown_pct (0.15): a decline of 10% passes, one of 16% fails.
C11_MaxDrawdownInThresholdUnit ==
    dc.equity_curve # << >> =>
        check_max_drawdown(dc)
            = ~RGreater(DeclineFraction(dc.equity_curve), Rat(max_drawdown_pct, 100))


\* ENTRY at the odd places of the trade log, EXIT at the even ones
Alternating(trades) ==
    \A i \in 1..Len(trades) :
        trades[i].type = (IF i % 2 = 1 THEN "ENTRY" ELSE "EXIT")

\* C12: when run_backtest returns no position is open; a position still open
\* after the last bar is closed at the last bar's close with reason
\* 'End of backtest'; the returned trade log has one EXIT for every ENTRY,
\* the two alternating from an ENTRY on.
C12_ReturnsFlatWithPairedTrades ==
    [][(backtest # None /\ backtest.pc = "loop" /\ backtest'.pc = "returned") =>
          /\ DOMAIN backtest'.positions = {}
          /\ BtSymbol \in DOMAIN backtest.positions =>
                /\ Len(backtest'.trades) = Len(backtest.trades) + 1
                /\ Last(backtest'.trades).type = "EXIT"
                /\ Last(backtest'.trades).reason = "End of backtest"
                /\ Last(backtest'.trades).shares = backtest.positions[BtSymbol].shares
                /\ Last(backtest'.trades).price
                       = RMul(backtest.last_close, RSub(R(1), backtest.slippage_bps))
          /\ BtSymbol \notin DOMAIN backtest.positions =>
                backtest'.trades = backtest.trades
          /\ bt_result'.trades = backtest'.trades
          /\ Alternating(bt_result'.trades)
          /\ Len(bt_result'.trades) % 2 = 0]_vars

\* a run has returned after closing the position left open by the last bar
C12_Witness ==
    /\ backtest # None
    /\ backtest.pc = "returned"
    /\ bt_result # None
    /\ bt_result.trades # << >>
    /\ Last(bt_result.trades).reason = "End of backtest"
    /\ DOMAIN backtest.positions = {}

\* the call made was calculate_position_size and it has completed
SizedPosition ==
    /\ sizer_call # None
    /\ sizer_call.op = "calculate_position_size"
    /\ sizer_result # None

\* the risk_per_trade of the call, the configured one when none is passed
RiskPerTradeUsed ==
    IF sizer_call.risk_per_trade = None THEN Rat(sizer_risk_per_trade, 100)
    ELSE sizer_call.risk_per_trade

\* C13: with stop_loss_pct > 0, calculate_position_size returns position_size
\* = min(account_value * risk_per_trade / stop_loss_pct,
\*       account_value * max_position_size_pct)
\* and risk_amount = account_value * risk_per_trade; position_size never
\* exceeds account_value * max_position_size_pct.
C13_SizeIsRiskOverStopCapped ==
    (SizedPosition /\ RGreater(sizer_call.stop_loss_pct, R(0))) =>
        LET risk == RMul(sizer_call.account_value, RiskPerTradeUsed)
            raw == RDiv(risk, sizer_call.stop_loss_pct)
            cap == RMul(sizer_call.account_value, Rat(max_position_size_pct, 100))
        IN  /\ "position_size" \in DOMAIN sizer_result
            /\ sizer_result.position_size = (IF RLeq(raw, cap) THEN raw ELSE cap)
            /\ sizer_result.risk_amount = risk
            /\ RLeq(sizer_result.position_size, cap)

\* a completed call whose size was cut down to the cap
C13_Witness ==
    /\ SizedPosition
    /\ RGreater(sizer_call.stop_loss_pct, R(0))
    /\ "position_size" \in DOMAIN sizer_result
    /\ sizer_result.position_size
           = RMul(sizer_call.account_value, Rat(max_position_size_pct, 100))
    /\ RGreater(RDiv(RMul(sizer_call.account_value, RiskPerTradeUsed),
                     sizer_call.stop_loss_pct),
                sizer_result.position_size)

\* C14: a stop_loss_pct <= 0 is a configuration error rejected before a run:
\* calculate_position_size never returns a position size for it (in
\* particular no negative or infinite one) and never fails on it in mid-run.
C14_NonPositiveStopLossGivesNoSize ==
    (SizedPosition /\ RLeq(sizer_call.stop_loss_pct, R(0))) =>
        /\ "position_size" \notin DOMAIN sizer_result
        /\ sizer_result # [raised |-> "ZeroDivisionError"]

\* the records of the trade log that close a round-trip
RoundTrips(trades) == {i \in 1..Len(trades) : trades[i].type = "EXIT"}

\* C15: the trade log run_backtest returns holds closed round-trips only,
\* num_trades is their number and win_rate is the share of them with pnl > 0
\* (1 when every round-trip is profitable).
C15_TradeLogIsRoundTrips ==
    bt_result # None =>
        LET closed == RoundTrips(bt_result.trades)
            winning == {i \in closed : RGreater(bt_result.trades[i].pnl, R(0))}
        IN  /\ \A i \in 1..Len(bt_result.trades) : bt_result.trades[i].type = "EXIT"
            /\ bt_result.num_trades = Cardinality(closed)
            /\ ("win_rate" \in DOMAIN bt_result.metrics /\ closed # {}) =>
                  /\ bt_result.metrics.num_trades = Cardinality(closed)
                  /\ bt_result.metrics.win_rate
                         = Rat(Cardinality(winning), Cardinality(closed))

\* the call made was apply_kelly_criterion and it has completed
KellyApplied ==
    /\ sizer_call # None
    /\ sizer_call.op = "apply_kelly_criterion"
    /\ sizer_result # None

\* C16: apply_kelly_criterion returns exactly 0 when avg_loss == 0; for
\* win_rate in [0,1], avg_win > 0 and avg_loss < 0 it returns half of the
\* Kelly fraction win_rate - (1 - win_rate) / (avg_win / |avg_loss|) clamped
\* to [0,1], a value in [0, 0.5].
C16_KellyIsHalfClampedFraction ==
    KellyApplied =>
        /\ sizer_call.avg_loss = R(0) => sizer_result = R(0)
        /\ ( /\ RLeq(R(0), sizer_call.win_rate) /\ RLeq(sizer_call.win_rate, R(1))
             /\ RGreater(sizer_call.avg_win, R(0))
             /\ RLess(sizer_call.avg_loss, R(0)) ) =>
              /\ DOMAIN sizer_result = {"n", "d"}
              /\ RLeq(R(0), sizer_result) /\ RLeq(sizer_result, Rat(1, 2))
              /\ LET b == RDiv(sizer_call.avg_win, RAbs(sizer_call.avg_loss))
                     kelly == RSub(sizer_call.win_rate,
                                   RDiv(RSub(R(1), sizer_call.win_rate), b))
                 IN  sizer_result
                         = (IF RLess(kelly, R(0)) THEN R(0)
                            ELSE IF RGreater(kelly, R(1)) THEN Rat(1, 2)
                            ELSE RMul(kelly, Rat(1, 2)))

\* floor(x) of a finite x
Floor(x) == x.n \div x.d

\* dollar sizes handed to _execute_entry: those of EntrySizes, and one that the
\* account cannot pay for
C17Sizes == EntrySizes \cup {R(200000)}

\* C17: _execute_entry computes execution_price = price * (1 + slippage),
\* shares = max(1, floor(position_size / execution_price)) and total_cost =
\* shares * execution_price + shares * commission; with total_cost > cash it
\* changes nothing, otherwise cash decreases by total_cost, the position is
\* opened with those shares at execution_price and one ENTRY record is added.
C17_EntryFillsOrLeavesAccount ==
    (backtest # None /\ backtest.pc = "loop") =>
        \A price \in Closes, position_size \in C17Sizes :
            LET after == _execute_entry(backtest, BtSymbol, price, position_size)
                execution_price ==
                    RMul(price, RAdd(R(1), backtest.slippage_bps))
                floored == Floor(RDiv(position_size, execution_price))
                shares == IF floored > 1 THEN floored ELSE 1
                total_cost == RAdd(RMul(R(shares), execution_price),
                                   RMul(R(shares), backtest.commission))
            IN  IF RGreater(total_cost, backtest.cash)
                THEN after = backtest
                ELSE /\ after.cash = RSub(backtest.cash, total_cost)
                     /\ BtSymbol \in DOMAIN after.positions
                     /\ after.positions[BtSymbol].shares = shares
                     /\ after.positions[BtSymbol].entry_price = execution_price
                     /\ Len(after.trades) = Len(backtest.trades) + 1
                     /\ \A i \in 1..Len(backtest.trades) :
                            after.trades[i] = backtest.trades[i]
                     /\ Last(after.trades).type = "ENTRY"
                     /\ Last(after.trades).shares = shares
                     /\ Last(after.trades).price = execution_price
                     /\ Last(after.trades).cost = total_cost

\* the loop has just executed an entry: the position is the one of the latest
\* ENTRY record and the cash is short of the capital
C17_Witness ==
    /\ backtest # None
    /\ backtest.pc = "loop"
    /\ backtest.trades # << >>
    /\ Last(backtest.trades).type = "ENTRY"
    /\ BtSymbol \in DOMAIN backtest.positions
    /\ backtest.positions[BtSymbol].shares = Last(backtest.trades).shares
    /\ backtest.positions[BtSymbol].shares > 1
    /\ RLess(backtest.cash, backtest.initial_capital)

\* C18: on a bar where the exit check closes the position no entry is
\* executed: no date of the trade log carries an EXIT record and a later
\* ENTRY record.
C18_NoEntryOnTheBarOfAnExit ==
    backtest # None =>
        \A i, j \in 1..Len(backtest.trades) :
            (i < j /\ backtest.trades[i].type = "EXIT"
                   /\ backtest.trades[j].type = "ENTRY")
                => backtest.trades[i].date # backtest.trades[j].date

\* C19: when the strategy's risk layer is evaluated for a bar of a backtest,
\* the account value it sizes against and the drawdown state it checks are
\* those of the equity the Backtester has pushed for that bar.
C19_RiskLayerSeesLatestEquity ==
    (backtest # None /\ backtest.pc = "loop" /\ backtest.dates # << >>) =>
        /\ get_account_value(strategy.exposure_manager)
               = Last(backtest.equity_curve)
        /\ get_account_value(strategy.exposure_manager)
               = get_account_value(backtest.exposure_manager)
        /\ strategy.drawdown_controller.equity_curve
               = backtest.drawdown_controller.equity_curve

\* dollar sizes asked of can_add_position, within the single-position limit of
\* the backtest's and of the paper account
C20Sizes == {R(50), Rat(1, 10)}

\* the symbols of which the paper account holds shares
PaperHeld == {s \in DOMAIN paper.positions : paper.positions[s].shares # 0}

\* C20: after every entry and exit of the Backtester or the PaperTrader the
\* symbols in the ledger of the ExposureManager the risk gate consults are the
\* symbols with an open position, so can_add_position admits no held symbol.
C20_LedgerTracksOpenPositions ==
    /\ backtest # None =>
           /\ DOMAIN strategy.exposure_manager.positions = DOMAIN backtest.positions
           /\ \A s \in DOMAIN backtest.positions, size \in C20Sizes :
                  ~can_add_position(strategy.exposure_manager, s, size)
    /\ paper # None =>
           /\ DOMAIN paper.exposure_manager.positions = PaperHeld
           /\ \A s \in PaperHeld, size \in C20Sizes :
                  ~can_add_position(paper.exposure_manager, s, size)

\* C21: the output of run_backtest has one equity snapshot per processed bar:
\* equity_curve and dates have the same length and equity_curve[i] is the
\* equity marked at dates[i] (the i-th equity pushed to the drawdown
\* controller).
C21_OneSnapshotPerBar ==
    bt_result # None =>
        /\ Len(bt_result.equity_curve) = Len(bt_result.dates)
        /\ \A i \in 1..Len(bt_result.dates) :
               bt_result.equity_curve[i]
                   = backtest.drawdown_controller.equity_curve[i]

\* a decision in quorum mode, without a required regime, whose technical and
\* risk layers both pass
TechnicalAndRiskPass ==
    /\ decision # None
    /\ ~strategy.require_all_layers
    /\ decision.required_regime = NoneStr
    /\ decision.result.checks.technical
    /\ decision.result.checks.risk

\* C22 as stated: with require_all_layers = False and no required regime,
\* should_enter returns enter = True whenever the technical and the risk layer
\* pass, even if fundamentals, sentiment and intermarket all fail.
C22_TechnicalAndRiskSuffice ==
    TechnicalAndRiskPass => decision.result.enter

\* C22 amended: in that mode the technical and the risk layer together with
\* the regime layer (which passes without a required regime) make three of six;
\* should_enter returns enter = True exactly when at least one of fundamentals,
\* sentiment and intermarket passes as well.
C22_TechnicalAndRiskNeedOneMore ==
    TechnicalAndRiskPass =>
        /\ decision.result.checks.regime
        /\ decision.result.enter
               = ( \/ decision.result.checks.fundamentals
                   \/ decision.result.checks.sentiment
                   \/ decision.result.checks.intermarket )

\* technical and risk pass, the three other layers fail, and the entry is refused
C22_Witness ==
    /\ TechnicalAndRiskPass
    /\ ~decision.result.checks.fundamentals
    /\ ~decision.result.checks.sentiment
    /\ ~decision.result.checks.intermarket
    /\ ~decision.result.enter
    /\ Len(decision.result.reasons) = 3

\* the reason should_enter gives for a failing layer
ReasonOf(layer) ==
    CASE layer = "regime" -> "Regime check failed"
      [] layer = "fundamentals" -> "Fundamental check failed"
      [] layer = "sentiment" -> "Sentiment check failed"
      [] layer = "intermarket" -> "Intermarket check failed"
      [] layer = "technical" -> "Technical entry check failed"
      [] layer = "risk" -> "Risk rules check failed"

\* the reasons of the failing layers among the first i, in the layers' order
RECURSIVE FailingReasons(_, _)
FailingReasons(checks, i) ==
    IF i = 0 THEN << >>
    ELSE IF checks[Layers[i]] THEN FailingReasons(checks, i - 1)
    ELSE Append(FailingReasons(checks, i - 1), ReasonOf(Layers[i]))

\* C23: should_enter evaluates all six layers whatever failed before; reasons
\* holds exactly one entry per failing layer in the order regime, fundamentals,
\* sentiment, intermarket, technical, risk, as many as there are false checks;
\* position_size is 0 whenever enter is false.
C23_ReasonsAreTheFailingLayers ==
    decision # None =>
        LET result == decision.result
        IN  /\ DOMAIN result.checks = {Layers[i] : i \in 1..Len(Layers)}
            /\ \A k \in DOMAIN result.checks : result.checks[k] \in BOOLEAN
            /\ result.reasons = FailingReasons(result.checks, Len(Layers))
            /\ Len(result.reasons)
                   = Cardinality(DOMAIN result.checks \ TrueLayers(result.checks))
            /\ ~result.enter => result.position_size = R(0)

\* a refused decision in which the first and the last layer failed, and one
\* between them
C23_Witness ==
    /\ decision # None
    /\ ~decision.result.enter
    /\ ~decision.result.checks.regime
    /\ ~decision.result.checks.risk
    /\ ~decision.result.checks.sentiment
    /\ decision.result.checks.technical
    /\ Len(decision.result.reasons) = 3
    /\ decision.result.position_size = R(0)

\* rejections of an order the account cannot carry
CarryRejections == {"Insufficient cash", "No position", "Insufficient shares"}

\* C24: for the same order and quote, when get_execution_preview reports no
\* error and would_execute_at = p, execute_order fills at p or rejects only for
\* lack of cash or shares; a LIMIT order whose limit is not met is not
\* previewed as executable; a LIMIT order that fills is previewed at its fill
\* price.
C24_PreviewAgreesWithExecution ==
    paper # None =>
        \A order \in Orders, quote \in QuotePrices :
            LET preview == get_execution_preview(paper, order, quote)
                executed == execute_order(paper, order, quote).result
            IN  /\ preview.error = NoneStr =>
                       \/ /\ Status(executed) = "FILLED"
                          /\ executed.execution_price = preview.would_execute_at
                       \/ /\ Status(executed) = "REJECTED"
                          /\ executed.reason \in CarryRejections
                /\ ( /\ Get(order, "type", "MARKET") = "LIMIT"
                     /\ ~LimitMet(order.side, quote, order.limit_price) ) =>
                       preview.error # NoneStr
                /\ ( /\ Get(order, "type", "MARKET") = "LIMIT"
                     /\ Status(executed) = "FILLED" ) =>
                       /\ preview.error = NoneStr
                       /\ preview.would_execute_at = executed.execution_price

\* C25: after any sequence of Backtester entries and exits and of
\* PaperTrader orders at non-negative prices and quantities, from a
\* non-negative initial capital, cash is never negative.
C25_CashNeverNegative ==
    /\ paper # None => RGeq(paper.cash, R(0))
    /\ backtest # None => RGeq(backtest.cash, R(0))


\* C26: the final_equity and total_return run_backtest reports are the
\* account's end state: after the forced close final_equity = cash (no
\* position is open) and total_return = cash - initial_capital, the slippage
\* and commission of the last exit included.
C26_FinalEquityIsFinalCash ==
    bt_result # None =>
        /\ DOMAIN backtest.positions = {}
        /\ bt_result.final_equity = backtest.cash
        /\ bt_result.total_return = RSub(backtest.cash, backtest.initial_capital)

\* C27: should_enter never returns enter = True when the risk check failed,
\* in either decision mode: enter = True implies checks['risk'].
C27_NoEntryWithoutRisk ==
    decision # None =>
        (decision.result.enter => decision.result.checks.risk)

\* C28: a BUY that fills at the current mark of the position leaves the equity
\* unchanged: for a symbol whose position process_market_data has marked at p,
\* _calculate_equity is the same before and after a BUY of any quantity at p.
C28_BuyAtMarkKeepsEquity ==
    paper # None =>
        \A symbol \in DOMAIN paper.positions, quantity \in Quantities \ {0} :
            "unrealized_pnl_pct" \in DOMAIN paper.positions[symbol] =>
                LET p == paper.positions[symbol].current_price
                    bought == _execute_buy(paper, symbol, quantity, p)
                IN  Status(bought.result) = "FILLED" =>
                        _calculate_equity(bought.self) = _calculate_equity(paper)

\* sum of pnl over the first i closed-trade records
RECURSIVE SumPnl(_, _)
SumPnl(trades, i) ==
    IF i = 0 THEN R(0) ELSE RAdd(SumPnl(trades, i - 1), trades[i].pnl)

C30_PositionsHoldShares ==
    paper # None =>
        \A symbol \in DOMAIN paper.positions : paper.positions[symbol].shares > 0
=============================================================================
